---- MODULE Spec2Model ----
(***************************************************************************)
(* Dual number arithmetic (src/dual.py): the class dual, its constructor,  *)
(* operators, compound assignments, comparisons, accessors and functions.  *)
(*                                                                         *)
(* Objects live on a heap (a sequence; the index is the object identity).  *)
(* Python floats are modelled as exact rationals <<n, d>> in lowest terms, *)
(* so rounding is outside the model.  The functions of the math module are *)
(* modelled where their value is rational (exp, sin, cos, sinh, cosh at 0, *)
(* log at 1, exp(c*log(a)) = a^c for an integral c) and where they raise;  *)
(* a call whose value is irrational is not taken.                          *)
(***************************************************************************)
EXTENDS Integers, Sequences, FiniteSets, TLC

VARIABLES heap, old, res, nops

vars == <<heap, old, res, nops>>

\* ------------------------------------------------------------------------
\* Bounds of the model
\* ------------------------------------------------------------------------
MaxOps == 2
MaxExp == 4
\* Calls are taken on objects whose numerators and denominators are at most
\* MaxAbs, which keeps the exact arithmetic inside 32-bit integers
MaxAbs == 8

\* ------------------------------------------------------------------------
\* Exact rational arithmetic standing for float arithmetic
\* ------------------------------------------------------------------------
Abs(n) == IF n < 0 THEN -n ELSE n

RECURSIVE GCD(_, _)
GCD(a, b) == IF b = 0 THEN a ELSE GCD(b, a % b)

Norm(n, d) ==
    LET g == GCD(Abs(n), Abs(d))
        s == IF d < 0 THEN -1 ELSE 1
    IN  <<(s * n) \div g, (s * d) \div g>>

Q(n, d) == Norm(n, d)
Zero == <<0, 1>>
One == <<1, 1>>

RAdd(a, b) == Norm(a[1] * b[2] + b[1] * a[2], a[2] * b[2])
RSub(a, b) == Norm(a[1] * b[2] - b[1] * a[2], a[2] * b[2])
RMul(a, b) == Norm(a[1] * b[1], a[2] * b[2])
RDiv(a, b) == Norm(a[1] * b[2], a[2] * b[1])
RNeg(a) == <<-a[1], a[2]>>
RAbs(a) == <<Abs(a[1]), a[2]>>
RLt(a, b) == a[1] * b[2] < b[1] * a[2]
RLe(a, b) == a[1] * b[2] <= b[1] * a[2]
RIsInt(a) == a[2] = 1
\* a <= t for a >= 0 and t = 1/N, without the product a[1] * N
RLeTol(a, t) == a[1] <= a[2] \div t[2]

\* float ** int for a non-negative int exponent (0.0 ** 0 is 1.0)
RECURSIVE RPow(_, _)
RPow(a, n) == IF n = 0 THEN One ELSE RMul(a, RPow(a, n - 1))

\* ------------------------------------------------------------------------
\* Module constants
\* ------------------------------------------------------------------------
precision == <<1, 100000000>>

\* ------------------------------------------------------------------------
\* Python values passed as arguments
\* ------------------------------------------------------------------------
PyInt(k) == [t |-> "int", v |-> Q(k, 1), s |-> "", id |-> 0]
PyFloat(q) == [t |-> "float", v |-> q, s |-> "", id |-> 0]
PyBool(k) == [t |-> "bool", v |-> Q(k, 1), s |-> "", id |-> 0]
PyStr(str) == [t |-> "str", v |-> Zero, s |-> str, id |-> 0]
PyDual(i) == [t |-> "dual", v |-> Zero, s |-> "", id |-> i]
PyNone == [t |-> "NoneType", v |-> Zero, s |-> "", id |-> 0]
PyList == [t |-> "list", v |-> Zero, s |-> "", id |-> 0]

\* ------------------------------------------------------------------------
\* dual objects: has = FALSE is an object whose attributes x and y were
\* never set (the constructor fell through all of its branches)
\* ------------------------------------------------------------------------
Obj(x, y) == [has |-> TRUE, x |-> x, y |-> y]
Hollow == [has |-> FALSE, x |-> Zero, y |-> Zero]

\* Outcome of a call: it returns a newly constructed dual (kind "dual", obj),
\* self (kind "self"), a float (val), a bool (b), or it raises (err).  mut says
\* that the call assigned to the attributes of self, which then holds obj.
RetObj(o) == [out |-> "return", err |-> "", kind |-> "dual", obj |-> o, val |-> Zero, b |-> FALSE, mut |-> FALSE]
RetNum(v) == [out |-> "return", err |-> "", kind |-> "float", obj |-> Hollow, val |-> v, b |-> FALSE, mut |-> FALSE]
RetBool(b) == [out |-> "return", err |-> "", kind |-> "bool", obj |-> Hollow, val |-> Zero, b |-> b, mut |-> FALSE]
Raise(e) == [out |-> "raise", err |-> e, kind |-> "none", obj |-> Hollow, val |-> Zero, b |-> FALSE, mut |-> FALSE]

\* parse(parseformat, x) of the parse package with parseformat "{:g}{:+g}w":
\* the two numbers of a string in the form <x><+|-><y>w, or None (has = FALSE)
parse(str) ==
    CASE str = "1+2w" -> Obj(Q(1, 1), Q(2, 1))
      [] str = "2+0w" -> Obj(Q(2, 1), Zero)
      [] OTHER -> Hollow

\* dual.__init__: the object dual(x, y) builds from the heap h, or the error
__init__(x, y, h) ==
    IF x.t = "str"
    THEN LET r == parse(x.s)
         IN  IF r.has THEN RetObj(Obj(r.x, r.y)) ELSE Raise("TypeError")
    ELSE IF x.t = "dual"
    THEN IF h[x.id].has THEN RetObj(Obj(h[x.id].x, h[x.id].y)) ELSE Raise("AttributeError")
    ELSE IF x.t \in {"int", "float"} /\ y.t \in {"int", "float"}
    THEN RetObj(Obj(x.v, y.v))
    ELSE RetObj(Hollow)

\* dual(x) with the default y = 0.0
dual1(x, h) == __init__(x, PyFloat(Zero), h)

\* "if not type(other) is dual: other = dual(other)": the operand as an object
coerce(other, h) ==
    IF other.t = "dual" THEN RetObj(h[other.id]) ELSE dual1(other, h)

\* A call whose exact value is irrational: the model does not take it
Irrational == [out |-> "irrational", err |-> "", kind |-> "none", obj |-> Hollow, val |-> Zero, b |-> FALSE, mut |-> FALSE]

\* A method that assigned to self: it returns self, which holds o, or it raises
\* after some of its assignments, which leave o in self
RetSelf(o) == [out |-> "return", err |-> "", kind |-> "self", obj |-> o, val |-> Zero, b |-> FALSE, mut |-> TRUE]
RaiseAt(e, o) == [out |-> "raise", err |-> e, kind |-> "none", obj |-> o, val |-> Zero, b |-> FALSE, mut |-> TRUE]

\* dual(x, y) on two floats
dual2(x, y) == __init__(PyFloat(x), PyFloat(y), <<>>)

\* ------------------------------------------------------------------------
\* Unary operators (i is the identity of self in the heap h)
\* ------------------------------------------------------------------------
__neg__(i, h) ==
    IF ~h[i].has THEN Raise("AttributeError")
    ELSE dual2(RNeg(h[i].x), RNeg(h[i].y))

__pos__(i, h) ==
    IF ~h[i].has THEN Raise("AttributeError")
    ELSE dual2(RAbs(h[i].x), RAbs(h[i].y))

\* ------------------------------------------------------------------------
\* Binary operators: the right operand is coerced, the result is a new dual
\* ------------------------------------------------------------------------
__add__(i, other, h) ==
    LET c == coerce(other, h)
    IN  IF c.out = "raise" THEN c
        ELSE IF ~h[i].has \/ ~c.obj.has THEN Raise("AttributeError")
        ELSE dual2(RAdd(h[i].x, c.obj.x), RAdd(h[i].y, c.obj.y))

__sub__(i, other, h) ==
    LET c == coerce(other, h)
    IN  IF c.out = "raise" THEN c
        ELSE IF ~h[i].has \/ ~c.obj.has THEN Raise("AttributeError")
        ELSE dual2(RSub(h[i].x, c.obj.x), RSub(h[i].y, c.obj.y))

__mul__(i, other, h) ==
    LET c == coerce(other, h)
    IN  IF c.out = "raise" THEN c
        ELSE IF ~h[i].has \/ ~c.obj.has THEN Raise("AttributeError")
        ELSE dual2(RMul(h[i].x, c.obj.x),
                   RAdd(RMul(h[i].x, c.obj.y), RMul(h[i].y, c.obj.x)))

__truediv__(i, other, h) ==
    LET c == coerce(other, h)
    IN  IF c.out = "raise" THEN c
        ELSE IF ~h[i].has \/ ~c.obj.has THEN Raise("AttributeError")
        ELSE IF c.obj.x = Zero THEN Raise("ZeroDivisionError")
        ELSE dual2(RDiv(h[i].x, c.obj.x),
                   RDiv(RSub(RMul(h[i].y, c.obj.x), RMul(h[i].x, c.obj.y)),
                        RMul(c.obj.x, c.obj.x)))

\* ~self is dual(1) / self
__invert__(i, h) ==
    LET one == dual1(PyInt(1), h)
    IN  __truediv__(Len(h) + 1, PyDual(i), Append(h, one.obj))

\* __pow__ with the power rule's exponent not lowered: n * x^n * y
pow_exponent_kept(i, n, h) ==
    IF n.t # "int" THEN Raise("DualException")
    ELSE IF n.v[1] > 1
    THEN IF ~h[i].has THEN Raise("AttributeError")
         ELSE dual2(RPow(h[i].x, n.v[1]),
                    RMul(RMul(n.v, RPow(h[i].x, n.v[1])), h[i].y))
    ELSE IF n.v[1] = 1
    THEN IF ~h[i].has THEN Raise("AttributeError")
         ELSE dual2(h[i].x, h[i].y)
    ELSE IF n.v[1] = 0 THEN dual1(PyFloat(One), h)
    ELSE Raise("DualException")

\* __pow__ that returns self, not a copy, for n = 1
pow_returns_self(i, n, h) ==
    IF n.t # "int" THEN Raise("DualException")
    ELSE IF n.v[1] > 1
    THEN IF ~h[i].has THEN Raise("AttributeError")
         ELSE dual2(RPow(h[i].x, n.v[1]),
                    RMul(RMul(n.v, RPow(h[i].x, n.v[1] - 1)), h[i].y))
    ELSE IF n.v[1] = 1
    THEN [RetObj(h[i]) EXCEPT !.kind = "self"]
    ELSE IF n.v[1] = 0 THEN dual1(PyFloat(One), h)
    ELSE Raise("DualException")

\* self ** n
__pow__(i, n, h) ==
    IF n.t # "int" THEN Raise("DualException")
    ELSE IF n.v[1] > 1
    THEN IF ~h[i].has THEN Raise("AttributeError")
         ELSE dual2(RPow(h[i].x, n.v[1]),
                    RMul(RMul(n.v, RPow(h[i].x, n.v[1] - 1)), h[i].y))
    ELSE IF n.v[1] = 1
    THEN IF ~h[i].has THEN Raise("AttributeError")
         ELSE dual2(h[i].x, h[i].y)
    ELSE IF n.v[1] = 0 THEN dual1(PyFloat(One), h)
    ELSE Raise("DualException")

\* ------------------------------------------------------------------------
\* Compound assignments, statement by statement.  When other is self (the
\* same object), every read of other.x / other.y sees what self holds at
\* that statement: oth is the object `other` names at that point.
\* ------------------------------------------------------------------------
aliased(i, other) == other.t = "dual" /\ other.id = i

oth(s, o, alias) == IF alias THEN s ELSE o

__iadd__(i, other, h) ==
    LET c == coerce(other, h)
        al == aliased(i, other)
        s0 == h[i]
    IN  IF c.out = "raise" THEN c
        ELSE IF ~s0.has \/ ~c.obj.has THEN Raise("AttributeError")
        ELSE LET s1 == [s0 EXCEPT !.x = RAdd(s0.x, oth(s0, c.obj, al).x)]
                 s2 == [s1 EXCEPT !.y = RAdd(s1.y, oth(s1, c.obj, al).y)]
             IN  RetSelf(s2)

__isub__(i, other, h) ==
    LET c == coerce(other, h)
        al == aliased(i, other)
        s0 == h[i]
    IN  IF c.out = "raise" THEN c
        ELSE IF ~s0.has \/ ~c.obj.has THEN Raise("AttributeError")
        ELSE LET s1 == [s0 EXCEPT !.x = RSub(s0.x, oth(s0, c.obj, al).x)]
                 s2 == [s1 EXCEPT !.y = RSub(s1.y, oth(s1, c.obj, al).y)]
             IN  RetSelf(s2)

\* __imul__ that updates self.x before it computes self.y
imul_x_first(i, other, h) ==
    LET c == coerce(other, h)
        al == aliased(i, other)
        s0 == h[i]
    IN  IF c.out = "raise" THEN c
        ELSE IF ~s0.has \/ ~c.obj.has THEN Raise("AttributeError")
        ELSE LET s1 == [s0 EXCEPT !.x = RMul(s0.x, oth(s0, c.obj, al).x)]
                 s2 == [s1 EXCEPT !.y = RMul(s1.y, oth(s1, c.obj, al).x)]
                 s3 == [s2 EXCEPT !.y = RAdd(s2.y, RMul(s2.x, oth(s2, c.obj, al).y))]
             IN  RetSelf(s3)

__imul__(i, other, h) ==
    LET c == coerce(other, h)
        al == aliased(i, other)
        s0 == h[i]
    IN  IF c.out = "raise" THEN c
        ELSE IF ~s0.has \/ ~c.obj.has THEN Raise("AttributeError")
        ELSE LET s1 == [s0 EXCEPT !.y = RMul(s0.y, oth(s0, c.obj, al).x)]
                 s2 == [s1 EXCEPT !.y = RAdd(s1.y, RMul(s1.x, oth(s1, c.obj, al).y))]
                 s3 == [s2 EXCEPT !.x = RMul(s2.x, oth(s2, c.obj, al).x)]
             IN  RetSelf(s3)

__itruediv__(i, other, h) ==
    LET c == coerce(other, h)
        al == aliased(i, other)
        s0 == h[i]
    IN  IF c.out = "raise" THEN c
        ELSE IF ~s0.has \/ ~c.obj.has THEN Raise("AttributeError")
        ELSE LET s1 == [s0 EXCEPT !.y = RMul(s0.y, oth(s0, c.obj, al).x)]
                 s2 == [s1 EXCEPT !.y = RSub(s1.y, RMul(s1.x, oth(s1, c.obj, al).y))]
                 dd == RMul(oth(s2, c.obj, al).x, oth(s2, c.obj, al).x)
             IN  IF dd = Zero THEN RaiseAt("ZeroDivisionError", s2)
                 ELSE LET s3 == [s2 EXCEPT !.y = RDiv(s2.y, dd)]
                          s4 == [s3 EXCEPT !.x = RDiv(s3.x, oth(s3, c.obj, al).x)]
                      IN  RetSelf(s4)

\* ------------------------------------------------------------------------
\* The named power, self.pow(n)
\* ------------------------------------------------------------------------
pow(i, n, h) ==
    LET e == dual1(n, h)
    IN  IF e.out = "raise" THEN e
        ELSE IF ~e.obj.has THEN Raise("AttributeError")
        ELSE LET c == e.obj.x
                 d == e.obj.y
             IN  IF RLt(Zero, c)
                 THEN IF ~h[i].has THEN Raise("AttributeError")
                      ELSE LET a == h[i].x
                               b == h[i].y
                           IN  IF n.t = "int"
                               THEN dual2(RPow(a, c[1]),
                                          RMul(RMul(c, RPow(a, c[1] - 1)), b))
                               ELSE IF n.t \in {"float", "dual", "str"}
                               THEN IF ~RLt(Zero, a) THEN Raise("ValueError")
                                    ELSE IF a = One
                                    THEN dual2(One, RMul(One, RAdd(RDiv(RMul(c, b), a), RMul(d, Zero))))
                                    ELSE IF RIsInt(c) /\ d = Zero
                                    THEN dual2(RPow(a, c[1]),
                                               RMul(RPow(a, c[1]), RAdd(RDiv(RMul(c, b), a), Zero)))
                                    ELSE Irrational
                               ELSE Raise("DualException")
                 ELSE IF c = Zero THEN dual1(PyInt(1), h)
                 ELSE Raise("DualException")

\* self **= other
__ipow__(i, other, h) ==
    LET c == coerce(other, h)
        s0 == h[i]
    IN  IF c.out = "raise" THEN c
        ELSE LET hh == Append(h, c.obj)
                 o == IF other.t = "dual" THEN other ELSE PyDual(Len(h) + 1)
                 p == pow(i, o, hh)
             IN  IF p.out # "return" THEN p
                 ELSE LET z == __init__(PyDual(Len(hh) + 1), PyFloat(Zero), Append(hh, p.obj))
                      IN  IF z.out = "raise" THEN z
                          ELSE RetSelf([[s0 EXCEPT !.x = z.obj.x] EXCEPT !.y = z.obj.y, !.has = TRUE])

\* ------------------------------------------------------------------------
\* Comparisons
\* ------------------------------------------------------------------------
__eq__(i, other, h) ==
    LET c == IF other.t \in {"int", "float", "str"} THEN dual1(other, h)
             ELSE IF other.t = "dual" THEN RetObj(h[other.id])
             ELSE RetObj(Hollow)
    IN  IF c.out = "raise" THEN c
        ELSE IF ~h[i].has \/ ~c.obj.has THEN Raise("AttributeError")
        ELSE RetBool(/\ RLeTol(RAbs(RSub(h[i].x, c.obj.x)), precision)
                     /\ RLeTol(RAbs(RSub(h[i].y, c.obj.y)), precision))

\* The parameter is named otherother; the body reads the local name other
\* before any assignment to it
__ne__(i, otherother, h) == Raise("UnboundLocalError")

__lt__(i, other, h) ==
    LET c == coerce(other, h)
    IN  IF c.out = "raise" THEN c
        ELSE IF ~h[i].has \/ ~c.obj.has THEN Raise("AttributeError")
        ELSE RetBool(RLt(h[i].x, c.obj.x))

__le__(i, other, h) ==
    LET c == coerce(other, h)
    IN  IF c.out = "raise" THEN c
        ELSE IF ~h[i].has \/ ~c.obj.has THEN Raise("AttributeError")
        ELSE RetBool(RLe(h[i].x, c.obj.x))

__gt__(i, other, h) ==
    LET c == coerce(other, h)
    IN  IF c.out = "raise" THEN c
        ELSE IF ~h[i].has \/ ~c.obj.has THEN Raise("AttributeError")
        ELSE RetBool(RLt(c.obj.x, h[i].x))

__ge__(i, other, h) ==
    LET c == coerce(other, h)
    IN  IF c.out = "raise" THEN c
        ELSE IF ~h[i].has \/ ~c.obj.has THEN Raise("AttributeError")
        ELSE RetBool(RLe(c.obj.x, h[i].x))

\* ------------------------------------------------------------------------
\* Accessors
\* ------------------------------------------------------------------------
re(i, h) == IF ~h[i].has THEN Raise("AttributeError") ELSE RetNum(h[i].x)

im(i, h) == IF ~h[i].has THEN Raise("AttributeError") ELSE RetNum(h[i].y)

abs(i, h) == IF ~h[i].has THEN Raise("AttributeError") ELSE RetNum(h[i].x)

D(i, h) == IF ~h[i].has THEN Raise("AttributeError") ELSE RetNum(h[i].y)

arg(i, h) ==
    IF ~h[i].has THEN Raise("AttributeError")
    ELSE IF h[i].x = Zero THEN Raise("ZeroDivisionError")
    ELSE RetNum(RDiv(h[i].y, h[i].x))

conj(i, h) ==
    IF ~h[i].has THEN Raise("AttributeError")
    ELSE dual2(h[i].x, RNeg(h[i].y))

\* ------------------------------------------------------------------------
\* The math module at its rational points; Irr stands for an irrational value
\* ------------------------------------------------------------------------
Irr == <<0, 0>>
math_exp(v) == IF v = Zero THEN One ELSE Irr
math_sin(v) == IF v = Zero THEN Zero ELSE Irr
math_cos(v) == IF v = Zero THEN One ELSE Irr
math_sinh(v) == IF v = Zero THEN Zero ELSE Irr
math_cosh(v) == IF v = Zero THEN One ELSE Irr
\* math.log on a positive argument (it raises ValueError on the others)
math_log(v) == IF v = One THEN Zero ELSE Irr

\* ------------------------------------------------------------------------
\* Functions
\* ------------------------------------------------------------------------
exp(i, h) ==
    IF ~h[i].has THEN Raise("AttributeError")
    ELSE IF math_exp(h[i].x) = Irr THEN Irrational
    ELSE dual2(math_exp(h[i].x), RMul(h[i].y, math_exp(h[i].x)))

sin(i, h) ==
    IF ~h[i].has THEN Raise("AttributeError")
    ELSE IF math_sin(h[i].x) = Irr \/ math_cos(h[i].x) = Irr THEN Irrational
    ELSE dual2(math_sin(h[i].x), RMul(h[i].y, math_cos(h[i].x)))

cos(i, h) ==
    IF ~h[i].has THEN Raise("AttributeError")
    ELSE IF math_sin(h[i].x) = Irr \/ math_cos(h[i].x) = Irr THEN Irrational
    ELSE dual2(math_cos(h[i].x), RMul(RNeg(h[i].y), math_sin(h[i].x)))

\* self.sin() / self.cos(): the two temporaries sit past the end of the heap
tan(i, h) ==
    LET s == sin(i, h)
        c == cos(i, h)
    IN  IF s.out # "return" THEN s
        ELSE IF c.out # "return" THEN c
        ELSE __truediv__(Len(h) + 1, PyDual(Len(h) + 2), h \o <<s.obj, c.obj>>)

sinh(i, h) ==
    IF ~h[i].has THEN Raise("AttributeError")
    ELSE IF math_sinh(h[i].x) = Irr \/ math_cosh(h[i].x) = Irr THEN Irrational
    ELSE dual2(math_sinh(h[i].x), RMul(h[i].y, math_cosh(h[i].x)))

cosh(i, h) ==
    IF ~h[i].has THEN Raise("AttributeError")
    ELSE IF math_sinh(h[i].x) = Irr \/ math_cosh(h[i].x) = Irr THEN Irrational
    ELSE dual2(math_cosh(h[i].x), RMul(h[i].y, math_sinh(h[i].x)))

tanh(i, h) ==
    LET s == sinh(i, h)
        c == cosh(i, h)
    IN  IF s.out # "return" THEN s
        ELSE IF c.out # "return" THEN c
        ELSE __truediv__(Len(h) + 1, PyDual(Len(h) + 2), h \o <<s.obj, c.obj>>)

log(i, h) ==
    IF ~h[i].has THEN Raise("AttributeError")
    ELSE IF ~RLt(Zero, h[i].x) THEN Raise("ValueError")
    ELSE IF math_log(h[i].x) = Irr THEN Irrational
    ELSE dual2(math_log(h[i].x), RDiv(h[i].y, h[i].x))

\* ------------------------------------------------------------------------
\* The state machine: a client calls the operations one after another.
\*   heap  the dual objects created so far, by identity
\*   old   the heap before the last call
\*   res   the last call: operation, receiver, arguments and outcome
\*   nops  the number of calls made
\* ------------------------------------------------------------------------
\* w = dual(0, 1), made when the module is loaded
w == Obj(Zero, One)

Ids == 1 .. Len(heap)
Duals == {PyDual(i) : i \in Ids}
Others == Duals \cup {PyInt(2), PyStr("1+2w"), PyStr("abc"), PyNone}
Exponents == Duals \cup {PyInt(k) : k \in -1 .. MaxExp}
             \cup {PyFloat(Q(2, 1)), PyFloat(Q(-1, 2)),
                   PyStr("2+0w"), PyNone, PyBool(1)}
CtorX == Duals \cup {PyInt(-1), PyFloat(Q(2, 1)), PyStr("1+2w"), PyStr("abc"),
                     PyNone, PyBool(1), PyList}
CtorY == {PyFloat(Zero), PyInt(1), PyStr("a")}

NoArg == PyNone

SmallObj(o) == Abs(o.x[1]) <= MaxAbs /\ o.x[2] <= MaxAbs /\ Abs(o.y[1]) <= MaxAbs /\ o.y[2] <= MaxAbs
Small(i, a1) ==
    /\ i \in Ids => SmallObj(heap[i])
    /\ a1.t = "dual" => SmallObj(heap[a1.id])

Record(op, i, a1, a2, r, id) ==
    [op |-> op, self |-> i, a1 |-> a1, a2 |-> a2, out |-> r.out, err |-> r.err,
     kind |-> r.kind, ret |-> id, val |-> r.val, b |-> r.b]

\* One call on the receiver i (0 for the constructor): the objects after it,
\* and the identity of the object it returns (a new one, or self)
Call(op, i, a1, a2, r) ==
    /\ nops < MaxOps
    /\ Small(i, a1)
    /\ r.out # "irrational"
    /\ heap' = IF r.mut THEN [heap EXCEPT ![i] = r.obj]
               ELSE IF r.kind = "dual" THEN Append(heap, r.obj)
               ELSE heap
    /\ old' = heap
    /\ res' = Record(op, i, a1, a2, r,
                     IF r.kind = "self" THEN i
                     ELSE IF r.kind = "dual" THEN Len(heap) + 1
                     ELSE 0)
    /\ nops' = nops + 1

Init ==
    /\ heap = <<w>>
    /\ old = << >>
    /\ res = Record("load", 0, NoArg, NoArg, RetObj(w), 1)
    /\ nops = 0

Construct(x, y) == Call("dual", 0, x, y, __init__(x, y, heap))
Neg(i) == Call("neg", i, NoArg, NoArg, __neg__(i, heap))
Pos(i) == Call("pos", i, NoArg, NoArg, __pos__(i, heap))
Invert(i) == Call("invert", i, NoArg, NoArg, __invert__(i, heap))
Add(i, o) == Call("add", i, o, NoArg, __add__(i, o, heap))
Sub(i, o) == Call("sub", i, o, NoArg, __sub__(i, o, heap))
Mul(i, o) == Call("mul", i, o, NoArg, __mul__(i, o, heap))
TrueDiv(i, o) == Call("truediv", i, o, NoArg, __truediv__(i, o, heap))
Pow(i, n) == Call("pow", i, n, NoArg, __pow__(i, n, heap))
IAdd(i, o) == Call("iadd", i, o, NoArg, __iadd__(i, o, heap))
ISub(i, o) == Call("isub", i, o, NoArg, __isub__(i, o, heap))
IMul(i, o) == Call("imul", i, o, NoArg, __imul__(i, o, heap))
ITrueDiv(i, o) == Call("itruediv", i, o, NoArg, __itruediv__(i, o, heap))
IPow(i, n) == Call("ipow", i, n, NoArg, __ipow__(i, n, heap))
Eq(i, o) == Call("eq", i, o, NoArg, __eq__(i, o, heap))
Ne(i, o) == Call("ne", i, o, NoArg, __ne__(i, o, heap))
Lt(i, o) == Call("lt", i, o, NoArg, __lt__(i, o, heap))
Le(i, o) == Call("le", i, o, NoArg, __le__(i, o, heap))
Gt(i, o) == Call("gt", i, o, NoArg, __gt__(i, o, heap))
Ge(i, o) == Call("ge", i, o, NoArg, __ge__(i, o, heap))
Re(i) == Call("re", i, NoArg, NoArg, re(i, heap))
Im(i) == Call("im", i, NoArg, NoArg, im(i, heap))
AbsM(i) == Call("abs", i, NoArg, NoArg, abs(i, heap))
Arg(i) == Call("arg", i, NoArg, NoArg, arg(i, heap))
Conj(i) == Call("conj", i, NoArg, NoArg, conj(i, heap))
Exp(i) == Call("exp", i, NoArg, NoArg, exp(i, heap))
PowM(i, n) == Call("powm", i, n, NoArg, pow(i, n, heap))
DM(i) == Call("D", i, NoArg, NoArg, D(i, heap))
Sin(i) == Call("sin", i, NoArg, NoArg, sin(i, heap))
Cos(i) == Call("cos", i, NoArg, NoArg, cos(i, heap))
Tan(i) == Call("tan", i, NoArg, NoArg, tan(i, heap))
Sinh(i) == Call("sinh", i, NoArg, NoArg, sinh(i, heap))
Cosh(i) == Call("cosh", i, NoArg, NoArg, cosh(i, heap))
Tanh(i) == Call("tanh", i, NoArg, NoArg, tanh(i, heap))
Log(i) == Call("log", i, NoArg, NoArg, log(i, heap))

Next ==
    \/ \E x \in CtorX, y \in CtorY : Construct(x, y)
    \/ \E i \in Ids : Neg(i)
    \/ \E i \in Ids : Pos(i)
    \/ \E i \in Ids : Invert(i)
    \/ \E i \in Ids, o \in Others : Add(i, o)
    \/ \E i \in Ids, o \in Others : Sub(i, o)
    \/ \E i \in Ids, o \in Others : Mul(i, o)
    \/ \E i \in Ids, o \in Others : TrueDiv(i, o)
    \/ \E i \in Ids, n \in Exponents : Pow(i, n)
    \/ \E i \in Ids, o \in Others : IAdd(i, o)
    \/ \E i \in Ids, o \in Others : ISub(i, o)
    \/ \E i \in Ids, o \in Others : IMul(i, o)
    \/ \E i \in Ids, o \in Others : ITrueDiv(i, o)
    \/ \E i \in Ids, n \in Exponents : IPow(i, n)
    \/ \E i \in Ids, o \in Others : Eq(i, o)
    \/ \E i \in Ids, o \in Others : Ne(i, o)
    \/ \E i \in Ids, o \in Others : Lt(i, o)
    \/ \E i \in Ids, o \in Others : Le(i, o)
    \/ \E i \in Ids, o \in Others : Gt(i, o)
    \/ \E i \in Ids, o \in Others : Ge(i, o)
    \/ \E i \in Ids : Re(i)
    \/ \E i \in Ids : Im(i)
    \/ \E i \in Ids : AbsM(i)
    \/ \E i \in Ids : Arg(i)
    \/ \E i \in Ids : Conj(i)
    \/ \E i \in Ids : Exp(i)
    \/ \E i \in Ids, n \in Exponents : PowM(i, n)
    \/ \E i \in Ids : DM(i)
    \/ \E i \in Ids : Sin(i)
    \/ \E i \in Ids : Cos(i)
    \/ \E i \in Ids : Tan(i)
    \/ \E i \in Ids : Sinh(i)
    \/ \E i \in Ids : Cosh(i)
    \/ \E i \in Ids : Tanh(i)
    \/ \E i \in Ids : Log(i)

Spec == Init /\ [][Next]_vars

\* ------------------------------------------------------------------------
\* Properties
\* ------------------------------------------------------------------------
Arith == {"iadd", "isub", "imul", "itruediv"}
Compound == Arith \cup {"ipow"}

\* The pure operator that corresponds to a compound assignment
PureOf(op, i, o, h) ==
    CASE op = "iadd" -> __add__(i, o, h)
      [] op = "isub" -> __sub__(i, o, h)
      [] op = "imul" -> __mul__(i, o, h)
      [] op = "itruediv" -> __truediv__(i, o, h)

\* The right operand of the last call, as an object of the heap before it
OtherObj == coerce(res.a1, old).obj

\* The last call was a compound arithmetic assignment a op= b on a dual a
\* with both components, b a different dual with both components or an
\* int/float scalar, and a nonzero real part of b for /=
DistinctOperands ==
    /\ res.op \in Arith
    /\ old[res.self].has
    /\ \/ res.a1.t \in {"int", "float"}
       \/ res.a1.t = "dual" /\ res.a1.id # res.self /\ old[res.a1.id].has
    /\ res.op = "itruediv" => OtherObj.x # Zero

\* C1: a op= b on distinct objects returns the same object a, which then holds
\* what the pure operator a op b gives on the values before the call; every
\* other object, b included, is unchanged.
C1_CompoundMatchesPure ==
    DistinctOperands =>
        /\ res.out = "return"
        /\ res.ret = res.self
        /\ Len(heap) = Len(old)
        /\ heap[res.self] = PureOf(res.op, res.self, res.a1, old).obj
        /\ \A j \in DOMAIN old : j # res.self => heap[j] = old[j]

C1_Witness ==
    /\ DistinctOperands
    /\ res.op \in {"imul", "itruediv"}
    /\ res.a1.t = "dual"
    /\ OtherObj.y # Zero
    /\ heap[res.self] # old[res.self]

\* C2: constructing from an input that is not a dual, not an int/float pair
\* and not a string in the canonical form raises DualException and yields no
\* object, and every dual object has both components.
ValidCtorInput(x, y) ==
    \/ x.t = "dual"
    \/ x.t \in {"int", "float"} /\ y.t \in {"int", "float"}
    \/ x.t = "str" /\ parse(x.s).has

C2_InvalidConstructionRaises ==
    /\ \A j \in DOMAIN heap : heap[j].has
    /\ (res.op = "dual" /\ ~ValidCtorInput(res.a1, res.a2)) =>
           /\ res.out = "raise"
           /\ res.err = "DualException"
           /\ heap = old

\* C3: a != b returns the negation of a == b and never raises, for b a dual,
\* an int, a float or a string in the canonical form.
C3_NeNegatesEq ==
    (/\ res.op = "ne"
     /\ old[res.self].has
     /\ \/ res.a1.t \in {"int", "float"}
        \/ res.a1.t = "dual" /\ old[res.a1.id].has
        \/ res.a1.t = "str" /\ parse(res.a1.s).has) =>
        /\ res.out = "return"
        /\ res.kind = "bool"
        /\ res.b = ~__eq__(res.self, res.a1, old).b

\* C4: a compound assignment that raises leaves the left operand as it was.
C4_NoPartialStateOnError ==
    (res.op \in Compound /\ res.out = "raise") => heap[res.self] = old[res.self]

\* C5: a **= n for a non-negative int n returns a holding what a ** n gives,
\* and raises exactly when a ** n raises.
C5_IPowMatchesPow ==
    (/\ res.op = "ipow"
     /\ old[res.self].has
     /\ res.a1.t = "int"
     /\ res.a1.v[1] >= 0) =>
        LET p == __pow__(res.self, res.a1, old)
        IN  /\ res.out = p.out
            /\ p.out = "return" => res.ret = res.self /\ heap[res.self] = p.obj

\* The product of n factors h[i], by the multiply operator, from the left;
\* the empty product is (1, 0)
RECURSIVE MulN(_, _, _)
MulN(i, n, h) ==
    IF n = 0 THEN Obj(One, Zero)
    ELSE IF n = 1 THEN h[i]
    ELSE __mul__(Len(h) + 1, PyDual(i), Append(h, MulN(i, n - 1, h))).obj

\* The last call was a ** n or a.pow(n) for an int n in 0 .. 4
SmallPower ==
    /\ res.op \in {"pow", "powm"}
    /\ old[res.self].has
    /\ res.a1.t = "int"
    /\ res.a1.v[1] \in 0 .. 4

\* C6: for an int n in 0 .. 4 and any base a, a ** n returns the product of n
\* factors a, and a.pow(n) returns what a ** n returns.
C6_PowerConsistency ==
    SmallPower =>
        /\ res.out = "return"
        /\ res.kind = "dual"
        /\ heap[res.ret] = MulN(res.self, res.a1.v[1], old)
        /\ heap[res.ret] = __pow__(res.self, res.a1, old).obj

C6_Witness ==
    /\ SmallPower
    /\ res.op = "powm"
    /\ res.a1.v[1] = 3
    /\ RLt(old[res.self].x, Zero)
    /\ old[res.self].y # Zero

\* The real part of the exponent n, when it has one
HasRe(n, h) == dual1(n, h).out = "return" /\ dual1(n, h).obj.has

\* C7: a ** n with n negative or not an int, a.pow(n) with an exponent of
\* negative real part, and a.pow(n) with an exponent that is no int, float,
\* dual or str, each raise DualException.
C7_InvalidExponentRaises ==
    (\/ res.op = "pow" /\ (res.a1.t # "int" \/ res.a1.v[1] < 0)
     \/ res.op = "powm" /\ HasRe(res.a1, old) /\ RLt(dual1(res.a1, old).obj.x, Zero)
     \/ res.op = "powm" /\ res.a1.t \notin {"int", "float", "dual", "str"}) =>
        /\ res.out = "raise"
        /\ res.err = "DualException"

\* How a call ended: the class of the error it raised, or "return"
Ending(r) == IF r.out = "raise" THEN r.err ELSE "return"

\* The last call met a zero denominator: a division by an operand of real
\* part 0, ~a, a.arg() or a.log() on a real part 0, tan or tanh on a cosine
\* of real part 0
ZeroDenominator ==
    \/ /\ res.op \in {"truediv", "itruediv"}
       /\ old[res.self].has
       /\ coerce(res.a1, old).out = "return"
       /\ OtherObj.has
       /\ OtherObj.x = Zero
    \/ /\ res.op \in {"invert", "arg", "log"}
       /\ old[res.self].has
       /\ old[res.self].x = Zero
    \/ /\ res.op = "tan"
       /\ cos(res.self, old).out = "return"
       /\ cos(res.self, old).obj.x = Zero
    \/ /\ res.op = "tanh"
       /\ cosh(res.self, old).out = "return"
       /\ cosh(res.self, old).obj.x = Zero

\* C8: every call that meets a zero denominator ends the way the division
\* by a zero real part ends.
C8_ZeroDenominatorConsistent ==
    ZeroDenominator => Ending(res) = Ending(__truediv__(1, PyInt(0), <<w>>))

\* C9: a op= a leaves in a what a op a gives on the value before the call.
C9_CompoundOnItself ==
    (/\ res.op \in Arith
     /\ res.a1 = PyDual(res.self)
     /\ old[res.self].has
     /\ res.op = "itruediv" => old[res.self].x # Zero) =>
        /\ res.out = "return"
        /\ res.ret = res.self
        /\ heap[res.self] = PureOf(res.op, res.self, res.a1, old).obj

\* C10: a call that is not a compound assignment leaves every object as it
\* was, and a dual it returns is a new object; a compound assignment
\* changes no object but its left operand.
C10_OnlyCompoundMutates ==
    /\ res.op \notin Compound =>
           /\ \A j \in DOMAIN old : heap[j] = old[j]
           /\ res.kind \in {"dual", "self"} => res.ret \notin DOMAIN old
    /\ res.op \in Compound =>
           /\ Len(heap) = Len(old)
           /\ \A j \in DOMAIN old : j # res.self => heap[j] = old[j]

\* A compound assignment changed an object that an earlier call had returned
\* with the value of the first object, which still holds that value
C10_Witness ==
    /\ res.op \in Compound
    /\ res.self > 1
    /\ old[res.self] = old[1]
    /\ heap[res.self] # old[res.self]
    /\ heap[1] = old[1]

====
